---- MODULE Spec2Model ----
(***************************************************************************)
(* State-machine model of rpg_core/Input.js (RPG Maker MV v1.5.0): the     *)
(* static classes Input (keyboard + gamepads) and TouchInput (mouse +      *)
(* touch).  JavaScript objects are modelled as sequences of <<key, value>> *)
(* pairs in insertion order, because Input.update() walks _currentState    *)
(* with for..in and the last press edge in that order wins.                *)
(***************************************************************************)
EXTENDS Integers, Sequences, FiniteSets, TLC

VARIABLES
    Input,          \* the fields of the static class Input
    keysDown,       \* environment: key codes physically down
    gamepads,       \* environment: what navigator.getGamepads() returns
    resourceError,  \* environment: ResourceHandler.exists()
    lastOp,         \* history: the operation that produced this state
    edges,          \* history: press edges the last update() observed, in scan order
    sinceEdge,      \* history: update() calls since the update that observed an edge
    heldFrames,     \* history: consecutive updates after which a button was pressed
    lastSingleAxis, \* history: the axis that was alone nonzero at the latest such update
    lastKey,        \* history: the key event of an unmapped code that produced this state
    lastPolled,     \* history: the sticks and D-pads as the latest update() polled them
    twin,           \* history: the outcomes of the update() just run, had the D-pad done each stick's move
    TouchInput,     \* the fields of the static class TouchInput
    fingers,        \* environment: number of touch points in contact
    ingested,       \* history: kinds of pointer events since the last update() or clear()
    frame,          \* history: kinds of pointer events of the frame the last update() published
    twoFingerStart, \* history: the last operation was a two-finger touch-start inside the canvas
    wheelIn,        \* history: sums of the wheel deltas since the last update() or clear()
    wheelFrame,     \* history: sums of the wheel deltas of the frame the last update() published
    touchSince,     \* history: updates since the one that published the press, held ever since
    pressedIn,      \* environment: the mouse button, and the touches, down after a start inside
    touchOp         \* history: the operation that last concerned TouchInput

inputVars == <<Input, keysDown, gamepads, resourceError, lastOp, edges,
               sinceEdge, heldFrames, lastSingleAxis, lastKey, lastPolled, twin>>

touchVars == <<TouchInput, fingers, ingested, frame, twoFingerStart,
               wheelIn, wheelFrame, touchSince, pressedIn>>

vars == <<inputVars, touchVars, touchOp>>

----------------------------------------------------------------------------
(* Bounds of the model *)

\* largest hold counter the model lets update() reach
MaxTime == 3
\* largest hold counter in the specification that follows one long hold
MaxHold == 37
\* gamepad.buttons.length of every slot (the standard mapping has at least 16)
PadButtons == 16
\* largest hold counter the model lets TouchInput.update() reach
MaxTouchTime == 2
\* largest number of touch points in contact
MaxFingers == 2
\* largest pending scroll total, in either direction
MaxWheel == 2
\* largest hold counter in the specification of the four arrow keys
MaxCrossTime == 1
\* number of slots of the array navigator.getGamepads() returns
MaxPads == 2
\* largest hold counter in the specifications of the gamepads
MaxPadTime == 1

----------------------------------------------------------------------------
(* Program constants and tables *)

keyRepeatWait == 24
keyRepeatInterval == 6

\* axis values are modelled in tenths: 0.5 is 5
threshold == 5

Null == "null"

Names == {"tab", "ok", "shift", "control", "escape", "pageup", "pagedown",
          "left", "up", "right", "down", "debug", "cancel", "menu"}

KeyTable ==
    [k \in {9, 13, 16, 17, 18, 27, 32, 33, 34, 37, 38, 39, 40, 45, 81, 87,
            88, 90, 96, 98, 100, 102, 104, 120} |->
        CASE k = 9 -> "tab"
          [] k \in {13, 32, 90} -> "ok"
          [] k = 16 -> "shift"
          [] k \in {17, 18} -> "control"
          [] k \in {27, 45, 88, 96} -> "escape"
          [] k \in {33, 81} -> "pageup"
          [] k \in {34, 87} -> "pagedown"
          [] k \in {37, 100} -> "left"
          [] k \in {38, 104} -> "up"
          [] k \in {39, 102} -> "right"
          [] k \in {40, 98} -> "down"
          [] k = 120 -> "debug"]

\* Input.keyMapper[keyCode]; Null stands for undefined
keyMapper(k) == IF k \in DOMAIN KeyTable THEN KeyTable[k] ELSE Null

PadTable ==
    [j \in {0, 1, 2, 3, 4, 5, 12, 13, 14, 15} |->
        CASE j = 0 -> "ok"
          [] j = 1 -> "cancel"
          [] j = 2 -> "shift"
          [] j = 3 -> "menu"
          [] j = 4 -> "pageup"
          [] j = 5 -> "pagedown"
          [] j = 12 -> "up"
          [] j = 13 -> "down"
          [] j = 14 -> "left"
          [] j = 15 -> "right"]

\* Input.gamepadMapper[j]; Null stands for undefined
gamepadMapper(j) == IF j \in DOMAIN PadTable THEN PadTable[j] ELSE Null

----------------------------------------------------------------------------
(* JavaScript objects: sequences of <<key, value>> in insertion order *)

Keys(obj) == {obj[i][1] : i \in 1..Len(obj)}

\* !!obj[key]: an absent key reads undefined, which is falsy
Get(obj, key) == \E i \in 1..Len(obj) : obj[i][1] = key /\ obj[i][2]

\* obj[key] = val: an existing key keeps its place, a new key goes last
Put(obj, key, val) ==
    IF key \in Keys(obj)
    THEN [i \in 1..Len(obj) |-> IF obj[i][1] = key THEN <<key, val>> ELSE obj[i]]
    ELSE Append(obj, <<key, val>>)

----------------------------------------------------------------------------
(* Input: queries *)

\* mutant: menu is left out of the alias
IsEscapeCompatibleCancelOnly(keyName) == keyName = "cancel"

Input_isEscapeCompatible(keyName) == keyName = "cancel" \/ keyName = "menu"

Input_isPressed(s, keyName) ==
    IF Input_isEscapeCompatible(keyName) /\ Get(s.currentState, "escape")
    THEN TRUE
    ELSE Get(s.currentState, keyName)

Input_isTriggered(s, keyName) ==
    IF Input_isEscapeCompatible(keyName)
       /\ s.latestButton = "escape" /\ s.pressedTime = 0
    THEN TRUE
    ELSE s.latestButton = keyName /\ s.pressedTime = 0

\* mutant: the repeat does not wait for keyRepeatWait
IsRepeatedNoWait(s, keyName) ==
    LET test(n) == s.latestButton = n /\ s.pressedTime % keyRepeatInterval = 0
    IN  IF Input_isEscapeCompatible(keyName) /\ test("escape")
        THEN TRUE
        ELSE test(keyName)

Input_isRepeated(s, keyName) ==
    LET test(n) == s.latestButton = n
                   /\ (s.pressedTime = 0
                       \/ (s.pressedTime >= keyRepeatWait
                           /\ s.pressedTime % keyRepeatInterval = 0))
    IN  IF Input_isEscapeCompatible(keyName) /\ test("escape")
        THEN TRUE
        ELSE test(keyName)

\* mutant: long press only past the wait, not at it
IsLongPressedStrict(s, keyName) ==
    LET test(n) == s.latestButton = n /\ s.pressedTime > keyRepeatWait
    IN  IF Input_isEscapeCompatible(keyName) /\ test("escape")
        THEN TRUE
        ELSE test(keyName)

Input_isLongPressed(s, keyName) ==
    LET test(n) == s.latestButton = n /\ s.pressedTime >= keyRepeatWait
    IN  IF Input_isEscapeCompatible(keyName) /\ test("escape")
        THEN TRUE
        ELSE test(keyName)

----------------------------------------------------------------------------
(* Input: clear, key events *)

\* mutant: the current generation survives clear()
ClearKeepsCurrent(s) ==
    [currentState |-> s.currentState, previousState |-> <<>>,
     gamepadStates |-> <<>>,
     latestButton |-> Null, pressedTime |-> 0,
     dir4 |-> 0, dir8 |-> 0, preferredAxis |-> ""]

Input_clear(s) ==
    [currentState |-> <<>>, previousState |-> <<>>,
     gamepadStates |-> <<>>,
     latestButton |-> Null, pressedTime |-> 0,
     dir4 |-> 0, dir8 |-> 0, preferredAxis |-> ""]

\* mutant: the mapped name is written without testing that there is one
OnKeyDownNoGuard(s, keyCode, rh) ==
    LET s1 == IF keyCode = 144 THEN Input_clear(s) ELSE s
        buttonName == keyMapper(keyCode)
    IN  IF rh /\ buttonName = "ok" THEN s1
        ELSE [s1 EXCEPT !.currentState = Put(@, buttonName, TRUE)]

\* rh is ResourceHandler.exists() at the time of the event
Input_onKeyDown(s, keyCode, rh) ==
    LET s1 == IF keyCode = 144 THEN Input_clear(s) ELSE s
        buttonName == keyMapper(keyCode)
    IN  IF rh /\ buttonName = "ok" THEN s1
        ELSE IF buttonName # Null
             THEN [s1 EXCEPT !.currentState = Put(@, buttonName, TRUE)]
             ELSE s1

Input_onKeyUp(s, keyCode) ==
    LET buttonName == keyMapper(keyCode)
        s1 == IF buttonName # Null
              THEN [s EXCEPT !.currentState = Put(@, buttonName, FALSE)]
              ELSE s
    IN  IF keyCode = 0 THEN Input_clear(s1) ELSE s1

Input_onLostFocus(s) == Input_clear(s)

----------------------------------------------------------------------------
(* Input: gamepad polling *)

\* gp.axes[i] for i = 0, 1, in tenths
Axis(gp, i) == gp.axes[i + 1]

\* mutant: the sticks are not read
NewStateButtonsOnly(gp) ==
    LET n == IF Len(gp.buttons) > 16 THEN Len(gp.buttons) ELSE 16
    IN  [i \in 1..n |-> IF i - 1 < Len(gp.buttons) THEN gp.buttons[i] ELSE FALSE]

\* the array newState of _updateGamepadState, as a sequence: newState[j] is
\* NewState(gp)[j + 1].  buttons.length is at least 12 here, so the array
\* has no holes.
NewState(gp) ==
    LET n == IF Len(gp.buttons) > 16 THEN Len(gp.buttons) ELSE 16
        pressed(j) == IF j < Len(gp.buttons) THEN gp.buttons[j + 1] ELSE FALSE
        up == Axis(gp, 1) < -threshold
        down == ~up /\ Axis(gp, 1) > threshold
        left == Axis(gp, 0) < -threshold
        right == ~left /\ Axis(gp, 0) > threshold
    IN  [i \in 1..n |->
            CASE i - 1 = 12 -> pressed(12) \/ up
              [] i - 1 = 13 -> pressed(13) \/ down
              [] i - 1 = 14 -> pressed(14) \/ left
              [] i - 1 = 15 -> pressed(15) \/ right
              [] OTHER -> pressed(i - 1)]

\* newState[j] !== lastState[j]; an index past lastState reads undefined
Differs(newState, lastState, j) ==
    IF j + 1 > Len(lastState) THEN TRUE ELSE newState[j + 1] # lastState[j + 1]

\* the loop over j of _updateGamepadState, from index j on
RECURSIVE WriteChanged(_, _, _, _)
WriteChanged(cur, newState, lastState, j) ==
    IF j >= Len(newState) THEN cur
    ELSE LET buttonName == gamepadMapper(j)
             cur1 == IF Differs(newState, lastState, j) /\ buttonName # Null
                     THEN Put(cur, buttonName, newState[j + 1])
                     ELSE cur
         IN  WriteChanged(cur1, newState, lastState, j + 1)

\* this._gamepadStates[index] || []; the array slot of index is index + 1
LastState(gs, index) == IF index + 1 \in DOMAIN gs THEN gs[index + 1] ELSE <<>>

\* index is gamepad.index
Input_updateGamepadState(s, gp, index) ==
    LET lastState == LastState(s.gamepadStates, index)
        newState == NewState(gp)
    IN  [s EXCEPT !.currentState = WriteChanged(@, newState, lastState, 0),
                  !.gamepadStates =
                      [i \in DOMAIN @ \cup {index + 1} |->
                          IF i = index + 1 THEN newState ELSE @[i]]]

\* the loop of _pollGamepads from slot i on; pads[i + 1] is gamepads[i]
RECURSIVE PollFrom(_, _, _)
PollFrom(s, pads, i) ==
    IF i >= Len(pads) THEN s
    ELSE PollFrom(IF pads[i + 1].connected
                  THEN Input_updateGamepadState(s, pads[i + 1], i)
                  ELSE s,
                  pads, i + 1)

Input_pollGamepads(s, pads) == PollFrom(s, pads, 0)

----------------------------------------------------------------------------
(* Input: direction *)

Input_signX(s) ==
    (IF Input_isPressed(s, "left") THEN -1 ELSE 0)
    + (IF Input_isPressed(s, "right") THEN 1 ELSE 0)

Input_signY(s) ==
    (IF Input_isPressed(s, "up") THEN -1 ELSE 0)
    + (IF Input_isPressed(s, "down") THEN 1 ELSE 0)

\* mutant: the neutral case is not told apart
MakeNumpadDirectionNoNeutral(x, y) == 5 - y * 3 + x

Input_makeNumpadDirection(x, y) ==
    IF x # 0 \/ y # 0 THEN 5 - y * 3 + x ELSE 0

\* mutant: a diagonal frame also moves the preferred axis
UpdateDirectionFlips(s) ==
    LET x == Input_signX(s)
        y == Input_signY(s)
        diagonal == x # 0 /\ y # 0
        x4 == IF diagonal /\ s.preferredAxis # "x" THEN 0 ELSE x
        y4 == IF diagonal /\ s.preferredAxis = "x" THEN 0 ELSE y
        axis == IF x4 # 0 THEN "y" ELSE IF y4 # 0 THEN "x" ELSE s.preferredAxis
    IN  [s EXCEPT !.dir8 = Input_makeNumpadDirection(x, y),
                  !.preferredAxis = axis,
                  !.dir4 = Input_makeNumpadDirection(x4, y4)]

\* mutant: a single-axis frame prefers its own axis
UpdateDirectionSameAxis(s) ==
    LET x == Input_signX(s)
        y == Input_signY(s)
        diagonal == x # 0 /\ y # 0
        x4 == IF diagonal /\ s.preferredAxis # "x" THEN 0 ELSE x
        y4 == IF diagonal /\ s.preferredAxis = "x" THEN 0 ELSE y
        axis == IF diagonal THEN s.preferredAxis
                ELSE IF x # 0 THEN "x"
                ELSE IF y # 0 THEN "y"
                ELSE s.preferredAxis
    IN  [s EXCEPT !.dir8 = Input_makeNumpadDirection(x, y),
                  !.preferredAxis = axis,
                  !.dir4 = Input_makeNumpadDirection(x4, y4)]

Input_updateDirection(s) ==
    LET x == Input_signX(s)
        y == Input_signY(s)
        diagonal == x # 0 /\ y # 0
        x4 == IF diagonal /\ s.preferredAxis # "x" THEN 0 ELSE x
        y4 == IF diagonal /\ s.preferredAxis = "x" THEN 0 ELSE y
        axis == IF diagonal THEN s.preferredAxis
                ELSE IF x # 0 THEN "y"
                ELSE IF y # 0 THEN "x"
                ELSE s.preferredAxis
    IN  [s EXCEPT !.dir8 = Input_makeNumpadDirection(x, y),
                  !.preferredAxis = axis,
                  !.dir4 = Input_makeNumpadDirection(x4, y4)]

----------------------------------------------------------------------------
(* Input: update *)

\* mutant: a released latest button is not forgotten
HoldStepKeepsLatest(s) ==
    IF Get(s.currentState, s.latestButton)
    THEN [s EXCEPT !.pressedTime = @ + 1]
    ELSE s

\* lines 121-125: the hold counter advances while the latest button is held
HoldStep(s) ==
    IF Get(s.currentState, s.latestButton)
    THEN [s EXCEPT !.pressedTime = @ + 1]
    ELSE [s EXCEPT !.latestButton = Null]

\* mutant: a press edge does not reset the hold counter
ScanNameNoReset(s, name) ==
    LET val == Get(s.currentState, name)
        s1 == IF val /\ ~Get(s.previousState, name)
              THEN [s EXCEPT !.latestButton = name]
              ELSE s
    IN  [s1 EXCEPT !.previousState = Put(@, name, val)]

\* mutant: a release counts as an edge too
ScanNameOnChange(s, name) ==
    LET val == Get(s.currentState, name)
        s1 == IF val # Get(s.previousState, name)
              THEN [s EXCEPT !.latestButton = name, !.pressedTime = 0]
              ELSE s
    IN  [s1 EXCEPT !.previousState = Put(@, name, val)]

\* mutant: with no latest button, a held button is taken for a new press
ScanNamePromotes(s, name) ==
    LET val == Get(s.currentState, name)
        s1 == IF val /\ (~Get(s.previousState, name) \/ s.latestButton = Null)
              THEN [s EXCEPT !.latestButton = name, !.pressedTime = 0]
              ELSE s
    IN  [s1 EXCEPT !.previousState = Put(@, name, val)]

\* lines 127-132: the body of the for..in loop, for one name
ScanName(s, name) ==
    LET val == Get(s.currentState, name)
        s1 == IF val /\ ~Get(s.previousState, name)
              THEN [s EXCEPT !.latestButton = name, !.pressedTime = 0]
              ELSE s
    IN  [s1 EXCEPT !.previousState = Put(@, name, val)]

\* lines 126-133: for (var name in this._currentState), from position i on
RECURSIVE ScanFrom(_, _)
ScanFrom(s, i) ==
    IF i > Len(s.currentState) THEN s
    ELSE ScanFrom(ScanName(s, s.currentState[i][1]), i + 1)

Input_update(s, pads) ==
    Input_updateDirection(ScanFrom(HoldStep(Input_pollGamepads(s, pads)), 1))

----------------------------------------------------------------------------
(* Graphics: the canvas coordinate mapping TouchInput calls *)

CanvasLeft == 1
CanvasTop == 0
BoxWidth == 2
BoxHeight == 1

Graphics_pageToCanvasX(pageX) == pageX - CanvasLeft

Graphics_pageToCanvasY(pageY) == pageY - CanvasTop

Graphics_isInsideCanvas(x, y) ==
    x >= 0 /\ x < BoxWidth /\ y >= 0 /\ y < BoxHeight

----------------------------------------------------------------------------
(* TouchInput: clear, update, queries *)

NoEvents == [triggered |-> FALSE, cancelled |-> FALSE, moved |-> FALSE,
             released |-> FALSE, wheelX |-> 0, wheelY |-> 0]

TouchInput_clear(s) ==
    [mousePressed |-> FALSE, screenPressed |-> FALSE, pressedTime |-> 0,
     events |-> NoEvents,
     triggered |-> FALSE, cancelled |-> FALSE, moved |-> FALSE,
     released |-> FALSE, wheelX |-> 0, wheelY |-> 0, x |-> 0, y |-> 0]

TouchInput_isPressed(s) == s.mousePressed \/ s.screenPressed

\* mutant: the pending moved flag is not cleared
TouchUpdateKeepsMoved(s) ==
    [s EXCEPT !.triggered = s.events.triggered,
              !.cancelled = s.events.cancelled,
              !.moved = s.events.moved,
              !.released = s.events.released,
              !.wheelX = s.events.wheelX,
              !.wheelY = s.events.wheelY,
              !.events = [NoEvents EXCEPT !.moved = s.events.moved],
              !.pressedTime = IF TouchInput_isPressed(s) THEN @ + 1 ELSE @]

TouchInput_update(s) ==
    [s EXCEPT !.triggered = s.events.triggered,
              !.cancelled = s.events.cancelled,
              !.moved = s.events.moved,
              !.released = s.events.released,
              !.wheelX = s.events.wheelX,
              !.wheelY = s.events.wheelY,
              !.events = NoEvents,
              !.pressedTime = IF TouchInput_isPressed(s) THEN @ + 1 ELSE @]

TouchInput_isTriggered(s) == s.triggered

TouchInput_isRepeated(s) ==
    TouchInput_isPressed(s)
    /\ (s.triggered
        \/ (s.pressedTime >= keyRepeatWait
            /\ s.pressedTime % keyRepeatInterval = 0))

TouchInput_isLongPressed(s) ==
    TouchInput_isPressed(s) /\ s.pressedTime >= keyRepeatWait

TouchInput_isCancelled(s) == s.cancelled

TouchInput_isMoved(s) == s.moved

TouchInput_isReleased(s) == s.released

----------------------------------------------------------------------------
(* TouchInput: event handlers.  A mouse or pointer event is a record with   *)
(* pageX, pageY and button (or pointerType, isPrimary); a touch event has   *)
(* changedTouches, a sequence of points, and touches, the number of points  *)
(* in contact (event.touches.length).                                       *)

\* mutant: the trigger is published by the callback itself
OnTriggerPublishes(s, x, y) ==
    [s EXCEPT !.triggered = TRUE, !.x = x, !.y = y]

TouchInput_onTrigger(s, x, y) ==
    [s EXCEPT !.events.triggered = TRUE, !.x = x, !.y = y]

TouchInput_onCancel(s, x, y) ==
    [s EXCEPT !.events.cancelled = TRUE, !.x = x, !.y = y]

TouchInput_onMove(s, x, y) ==
    [s EXCEPT !.events.moved = TRUE, !.x = x, !.y = y]

TouchInput_onRelease(s, x, y) ==
    [s EXCEPT !.events.released = TRUE, !.x = x, !.y = y]

\* mutant: a press does not reset the hold counter
LeftButtonDownNoReset(s, event) ==
    LET x == Graphics_pageToCanvasX(event.pageX)
        y == Graphics_pageToCanvasY(event.pageY)
    IN  IF Graphics_isInsideCanvas(x, y)
        THEN TouchInput_onTrigger([s EXCEPT !.mousePressed = TRUE], x, y)
        ELSE s

TouchInput_onLeftButtonDown(s, event) ==
    LET x == Graphics_pageToCanvasX(event.pageX)
        y == Graphics_pageToCanvasY(event.pageY)
    IN  IF Graphics_isInsideCanvas(x, y)
        THEN TouchInput_onTrigger(
                 [s EXCEPT !.mousePressed = TRUE, !.pressedTime = 0], x, y)
        ELSE s

TouchInput_onMiddleButtonDown(s, event) == s

TouchInput_onRightButtonDown(s, event) ==
    LET x == Graphics_pageToCanvasX(event.pageX)
        y == Graphics_pageToCanvasY(event.pageY)
    IN  IF Graphics_isInsideCanvas(x, y) THEN TouchInput_onCancel(s, x, y) ELSE s

TouchInput_onMouseDown(s, event) ==
    IF event.button = 0 THEN TouchInput_onLeftButtonDown(s, event)
    ELSE IF event.button = 1 THEN TouchInput_onMiddleButtonDown(s, event)
    ELSE IF event.button = 2 THEN TouchInput_onRightButtonDown(s, event)
    ELSE s

TouchInput_onMouseMove(s, event) ==
    IF s.mousePressed
    THEN TouchInput_onMove(s, Graphics_pageToCanvasX(event.pageX),
                              Graphics_pageToCanvasY(event.pageY))
    ELSE s

TouchInput_onMouseUp(s, event) ==
    IF event.button = 0
    THEN TouchInput_onRelease([s EXCEPT !.mousePressed = FALSE],
                              Graphics_pageToCanvasX(event.pageX),
                              Graphics_pageToCanvasY(event.pageY))
    ELSE s

\* mutant: the wheel event writes the published totals
OnWheelPublishes(s, event) ==
    [s EXCEPT !.wheelX = @ + event.deltaX,
              !.wheelY = @ + event.deltaY]

\* mutant: a wheel event overwrites the pending totals
OnWheelOverwrites(s, event) ==
    [s EXCEPT !.events.wheelX = event.deltaX,
              !.events.wheelY = event.deltaY]

TouchInput_onWheel(s, event) ==
    [s EXCEPT !.events.wheelX = @ + event.deltaX,
              !.events.wheelY = @ + event.deltaY]

\* mutant: every touch inside the canvas triggers, however many fingers
TouchStartAlwaysTriggers(s, event, touch) ==
    LET x == Graphics_pageToCanvasX(touch.pageX)
        y == Graphics_pageToCanvasY(touch.pageY)
    IN  IF Graphics_isInsideCanvas(x, y)
        THEN TouchInput_onTrigger(
                 [s EXCEPT !.screenPressed = TRUE, !.pressedTime = 0], x, y)
        ELSE s

\* lines 852-864: the body of the loop of _onTouchStart, for one changed touch
TouchStartOne(s, event, touch) ==
    LET x == Graphics_pageToCanvasX(touch.pageX)
        y == Graphics_pageToCanvasY(touch.pageY)
        s1 == [s EXCEPT !.screenPressed = TRUE, !.pressedTime = 0]
    IN  IF Graphics_isInsideCanvas(x, y)
        THEN IF event.touches >= 2
             THEN TouchInput_onCancel(s1, x, y)
             ELSE TouchInput_onTrigger(s1, x, y)
        ELSE s

RECURSIVE TouchStartFrom(_, _, _)
TouchStartFrom(s, event, i) ==
    IF i > Len(event.changedTouches) THEN s
    ELSE TouchStartFrom(TouchStartOne(s, event, event.changedTouches[i]),
                        event, i + 1)

TouchInput_onTouchStart(s, event) == TouchStartFrom(s, event, 1)

RECURSIVE TouchMoveFrom(_, _, _)
TouchMoveFrom(s, event, i) ==
    IF i > Len(event.changedTouches) THEN s
    ELSE TouchMoveFrom(
             TouchInput_onMove(s,
                 Graphics_pageToCanvasX(event.changedTouches[i].pageX),
                 Graphics_pageToCanvasY(event.changedTouches[i].pageY)),
             event, i + 1)

TouchInput_onTouchMove(s, event) == TouchMoveFrom(s, event, 1)

RECURSIVE TouchEndFrom(_, _, _)
TouchEndFrom(s, event, i) ==
    IF i > Len(event.changedTouches) THEN s
    ELSE TouchEndFrom(
             TouchInput_onRelease([s EXCEPT !.screenPressed = FALSE],
                 Graphics_pageToCanvasX(event.changedTouches[i].pageX),
                 Graphics_pageToCanvasY(event.changedTouches[i].pageY)),
             event, i + 1)

TouchInput_onTouchEnd(s, event) == TouchEndFrom(s, event, 1)

TouchInput_onTouchCancel(s, event) == [s EXCEPT !.screenPressed = FALSE]

TouchInput_onPointerDown(s, event) ==
    LET x == Graphics_pageToCanvasX(event.pageX)
        y == Graphics_pageToCanvasY(event.pageY)
    IN  IF event.pointerType = "touch" /\ ~event.isPrimary
           /\ Graphics_isInsideCanvas(x, y)
        THEN TouchInput_onCancel(s, x, y)
        ELSE s

----------------------------------------------------------------------------
(* Environment and history *)

Min(a, b) == IF a < b THEN a ELSE b

\* a gamepad slot with nothing pressed and centred sticks
IdlePad == [connected |-> FALSE,
            buttons |-> [j \in 1..PadButtons |-> FALSE],
            axes |-> <<0, 0>>]

NoHeld == [n \in Names |-> 0]

\* the names whose press edge an update() of s observes, in for..in order
RECURSIVE EdgesFrom(_, _)
EdgesFrom(s, i) ==
    IF i > Len(s.currentState) THEN <<>>
    ELSE LET name == s.currentState[i][1]
         IN  (IF s.currentState[i][2] /\ ~Get(s.previousState, name)
              THEN <<name>> ELSE <<>>) \o EdgesFrom(s, i + 1)

\* a logical button b has a source: a key mapped to b is down, or a connected
\* gamepad has a button or a binarized axis mapped to b active
Contributes(b) ==
    \/ \E k \in keysDown : keyMapper(k) = b
    \/ \E i \in 1..Len(gamepads) :
          /\ gamepads[i].connected
          /\ \E j \in DOMAIN PadTable : PadTable[j] = b /\ NewState(gamepads[i])[j + 1]

InputInit ==
    /\ Input = Input_clear([currentState |-> <<>>])
    /\ keysDown = {}
    /\ gamepads = [i \in 1..MaxPads |-> IdlePad]
    /\ resourceError = FALSE
    /\ lastOp = "init"
    /\ edges = <<>>
    /\ sinceEdge = -1
    /\ heldFrames = NoHeld
    /\ lastSingleAxis = ""
    /\ lastKey = <<>>
    /\ lastPolled = gamepads
    /\ twin = <<>>

\* history after an operation that is not update(); cleared says it ran clear()
EventHistory(op, cleared) ==
    /\ lastOp' = op
    /\ edges' = IF cleared THEN <<>> ELSE edges
    /\ sinceEdge' = IF cleared THEN -1 ELSE sinceEdge
    /\ heldFrames' = IF cleared THEN NoHeld ELSE heldFrames
    /\ lastSingleAxis' = IF cleared THEN "" ELSE lastSingleAxis
    /\ touchOp' = IF op = "blur" THEN "blur" ELSE touchOp
    /\ twin' = <<>>
    /\ UNCHANGED <<lastPolled, touchVars>>

----------------------------------------------------------------------------
(* Input: actions *)

\* a keydown event (a first press or an auto-repeat of a held key)
KeyDown(k) ==
    /\ Input' = Input_onKeyDown(Input, k, resourceError)
    /\ keysDown' = keysDown \cup {k}
    /\ resourceError' = (resourceError /\ keyMapper(k) # "ok")
    /\ EventHistory(IF k = 144 THEN "clear" ELSE "event", k = 144)
    /\ lastKey' = IF keyMapper(k) = Null THEN <<"keydown", k>> ELSE <<>>
    /\ UNCHANGED gamepads

\* a keyup event; code 0 is what QtWebEngine on OS X reports
KeyUp(k) ==
    /\ k \in keysDown \/ k = 0
    /\ Input' = Input_onKeyUp(Input, k)
    /\ keysDown' = keysDown \ {k}
    /\ EventHistory(IF k = 0 THEN "clear" ELSE "event", k = 0)
    /\ lastKey' = IF keyMapper(k) = Null THEN <<"keyup", k>> ELSE <<>>
    /\ UNCHANGED <<gamepads, resourceError>>

\* window blur: only Input listens to it
LostFocus ==
    /\ Input' = Input_onLostFocus(Input)
    /\ EventHistory("blur", TRUE)
    /\ lastKey' = <<>>
    /\ UNCHANGED <<keysDown, gamepads, resourceError>>

\* a call of Input.clear() by the engine
Clear ==
    /\ Input' = Input_clear(Input)
    /\ EventHistory("clear", TRUE)
    /\ lastKey' = <<>>
    /\ UNCHANGED <<keysDown, gamepads, resourceError>>

\* a resource fails to load: ResourceHandler.exists() becomes true
ResourceFail ==
    /\ ~resourceError
    /\ resourceError' = TRUE
    /\ EventHistory("event", FALSE)
    /\ lastKey' = <<>>
    /\ UNCHANGED <<Input, keysDown, gamepads>>

PadConnect(i) ==
    /\ ~gamepads[i].connected
    /\ gamepads' = [gamepads EXCEPT ![i].connected = TRUE]
    /\ EventHistory("event", FALSE)
    /\ lastKey' = <<>>
    /\ UNCHANGED <<Input, keysDown, resourceError>>

PadDisconnect(i) ==
    /\ gamepads[i].connected
    /\ gamepads' = [gamepads EXCEPT ![i] = IdlePad]
    /\ EventHistory("event", FALSE)
    /\ lastKey' = <<>>
    /\ UNCHANGED <<Input, keysDown, resourceError>>

\* button j of slot i goes down or up
PadButton(i, j) ==
    /\ gamepads[i].connected
    /\ gamepads' = [gamepads EXCEPT ![i].buttons[j + 1] = ~@]
    /\ EventHistory("event", FALSE)
    /\ lastKey' = <<>>
    /\ UNCHANGED <<Input, keysDown, resourceError>>

\* axis a of slot i moves to v (tenths)
PadAxis(i, a, v) ==
    /\ gamepads[i].connected
    /\ gamepads[i].axes[a + 1] # v
    /\ gamepads' = [gamepads EXCEPT ![i].axes[a + 1] = v]
    /\ EventHistory("event", FALSE)
    /\ lastKey' = <<>>
    /\ UNCHANGED <<Input, keysDown, resourceError>>

\* what the history keeps of a gamepad as polled: whether it was connected,
\* the vertical axis of its left stick and its D-pad down button
Polled(gp) ==
    [connected |-> gp.connected,
     buttons |-> [j \in DOMAIN gp.buttons |-> j = 14 /\ gp.buttons[j]],
     axes |-> <<0, gp.axes[2]>>]

\* the vertical axis of the left stick of slot i has gone from at most 0.5
\* at the previous poll to above 0.5 now, with D-pad down released at both
AxisCrossed(i) ==
    /\ lastPolled[i].connected /\ gamepads[i].connected
    /\ Axis(lastPolled[i], 1) <= threshold /\ Axis(gamepads[i], 1) > threshold
    /\ ~lastPolled[i].buttons[14] /\ ~gamepads[i].buttons[14]

\* the same gamepads with the stick of slot i where the previous poll saw it
\* and its D-pad down (button 13) pressed instead
DpadInstead(i) ==
    [gamepads EXCEPT ![i].axes[2] = Axis(lastPolled[i], 1), ![i].buttons[14] = TRUE]

HighestOf(S) == CHOOSE m \in S : \A j \in S : j <= m

\* the slots polled after slot i whose poll writes "down": newState[13] differs
\* from what the slot's previous poll left (nothing on a first poll and after
\* clear())
DownWriters(i) ==
    {j \in (i + 1)..Len(gamepads) :
        /\ gamepads[j].connected
        /\ Differs(NewState(gamepads[j]), LastState(Input.gamepadStates, j - 1), 13)}

\* the last write of "down" by a slot polled after slot i is a release
DownOverwritten(i) ==
    /\ DownWriters(i) # {}
    /\ ~NewState(gamepads[HighestOf(DownWriters(i))])[14]

\* one record for every slot from i on whose stick crossed the threshold: the
\* outcome of this update() had the D-pad done the stick's move
RECURSIVE TwinsFrom(_)
TwinsFrom(i) ==
    IF i > Len(gamepads) THEN <<>>
    ELSE (IF AxisCrossed(i)
          THEN <<[pad |-> i,
                  state |-> Input_update(Input, DpadInstead(i)),
                  from |-> Axis(lastPolled[i], 1),
                  overwritten |-> DownOverwritten(i)]>>
          ELSE <<>>) \o TwinsFrom(i + 1)

\* one frame: Input.update(); max caps the hold counter, heldFrames is kept
\* for the buttons in watch, and lastPolled and twin for the slots in polls
Update(max, watch, polls) ==
    \E next \in {Input_update(Input, gamepads)} :
    LET polled == Input_pollGamepads(Input, gamepads)
        seen == EdgesFrom(polled, 1)
        x == Input_signX(next)
        y == Input_signY(next)
    IN  /\ next.pressedTime <= max
        /\ Input' = next
        /\ lastOp' = IF lastOp \in {"clear", "blur"} THEN "clearUpdate" ELSE "update"
        /\ edges' = seen
        /\ sinceEdge' = IF seen # <<>> THEN 0
                        ELSE IF sinceEdge < 0 THEN -1
                        ELSE Min(sinceEdge + 1, max + 1)
        /\ heldFrames' = [n \in Names |->
                            IF n \in watch /\ Input_isPressed(next, n)
                            THEN Min(heldFrames[n] + 1, max + 1) ELSE 0]
        /\ lastSingleAxis' = IF x # 0 /\ y = 0 THEN "x"
                             ELSE IF x = 0 /\ y # 0 THEN "y"
                             ELSE lastSingleAxis
        /\ lastKey' = <<>>
        /\ lastPolled' = [i \in DOMAIN gamepads |->
                            IF i \in polls THEN Polled(gamepads[i])
                            ELSE lastPolled[i]]
        /\ twin' = TwinsFrom(1)
        /\ UNCHANGED <<keysDown, gamepads, resourceError>>
        /\ UNCHANGED <<touchVars, touchOp>>

----------------------------------------------------------------------------
(* TouchInput: actions *)

TouchInit ==
    /\ TouchInput = TouchInput_clear(<<>>)
    /\ fingers = 0
    /\ ingested = {}
    /\ frame = {}
    /\ twoFingerStart = FALSE
    /\ wheelIn = <<0, 0>>
    /\ wheelFrame = <<0, 0>>
    /\ touchSince = -1
    /\ pressedIn = [mouse |-> FALSE, touches |-> 0]
    /\ touchOp = "init"

\* page points: left of the canvas, and two points inside it
PagePoints == {[pageX |-> 0, pageY |-> 0], [pageX |-> 1, pageY |-> 0],
               [pageX |-> 2, pageY |-> 0]}

\* a point left of the canvas and a point inside it
PointerPoints == {[pageX |-> 0, pageY |-> 0], [pageX |-> 2, pageY |-> 0]}

\* the changedTouches lists of the model: one point, or two
TouchLists ==
    {<<p>> : p \in PagePoints} \cup {<<p, q>> : p \in PagePoints, q \in PagePoints}

Inside(p) ==
    Graphics_isInsideCanvas(Graphics_pageToCanvasX(p.pageX),
                            Graphics_pageToCanvasY(p.pageY))

\* history after a pointer event that ingests the kinds in kinds; a trigger
\* starts the run of a held press (-2 until an update publishes it), and the
\* run ends (-1) when nothing is pressed and at a multi-touch start
Ingest(kinds, two) ==
    /\ ingested' = ingested \cup kinds
    /\ frame' = frame
    /\ twoFingerStart' = two
    /\ touchSince' = IF two \/ ~TouchInput_isPressed(TouchInput') THEN -1
                      ELSE IF "trigger" \in kinds THEN -2
                      ELSE touchSince
    /\ touchOp' = "event"
    /\ UNCHANGED <<wheelIn, wheelFrame, inputVars>>

MouseDown(b, p) ==
    /\ TouchInput' = TouchInput_onMouseDown(TouchInput,
                         [button |-> b, pageX |-> p.pageX, pageY |-> p.pageY])
    /\ Ingest(IF Inside(p) /\ b = 0 THEN {"trigger"}
              ELSE IF Inside(p) /\ b = 2 THEN {"cancel"} ELSE {}, FALSE)
    /\ pressedIn' = IF b = 0 THEN [pressedIn EXCEPT !.mouse = @ \/ Inside(p)]
                     ELSE pressedIn
    /\ UNCHANGED fingers

MouseMove(p) ==
    /\ TouchInput' = TouchInput_onMouseMove(TouchInput,
                         [pageX |-> p.pageX, pageY |-> p.pageY])
    /\ Ingest(IF TouchInput.mousePressed THEN {"move"} ELSE {}, FALSE)
    /\ UNCHANGED <<fingers, pressedIn>>

MouseUp(b, p) ==
    /\ TouchInput' = TouchInput_onMouseUp(TouchInput,
                         [button |-> b, pageX |-> p.pageX, pageY |-> p.pageY])
    /\ Ingest(IF b = 0 THEN {"release"} ELSE {}, FALSE)
    /\ pressedIn' = IF b = 0 THEN [pressedIn EXCEPT !.mouse = FALSE]
                     ELSE pressedIn
    /\ UNCHANGED fingers

\* the fingers of ps touch down; event.touches holds them and those in contact
TouchStart(ps) ==
    LET n == fingers + Len(ps)
        inside == \E i \in 1..Len(ps) : Inside(ps[i])
    IN  /\ n <= MaxFingers
        /\ TouchInput' = TouchInput_onTouchStart(TouchInput,
                             [changedTouches |-> ps, touches |-> n])
        /\ fingers' = n
        /\ pressedIn' = [pressedIn EXCEPT !.touches =
                            @ + Cardinality({i \in 1..Len(ps) : Inside(ps[i])})]
        /\ Ingest(IF ~inside THEN {}
                  ELSE IF n >= 2 THEN {"cancel", "twoFinger"} ELSE {"trigger"},
                  inside /\ n >= 2)

TouchMove(ps) ==
    /\ Len(ps) <= fingers
    /\ TouchInput' = TouchInput_onTouchMove(TouchInput,
                         [changedTouches |-> ps, touches |-> fingers])
    /\ Ingest({"move"}, FALSE)
    /\ UNCHANGED <<fingers, pressedIn>>

\* the fingers of ps are lifted; k of them had started inside the canvas
TouchEnd(ps) ==
    /\ Len(ps) <= fingers
    /\ TouchInput' = TouchInput_onTouchEnd(TouchInput,
                         [changedTouches |-> ps, touches |-> fingers - Len(ps)])
    /\ fingers' = fingers - Len(ps)
    /\ \E k \in 0..Len(ps) :
          /\ k <= pressedIn.touches
          /\ Len(ps) - k <= fingers - pressedIn.touches
          /\ pressedIn' = [pressedIn EXCEPT !.touches = @ - k]
    /\ Ingest({"release"}, FALSE)

\* the system cancels the touches in contact
TouchCancel ==
    /\ fingers > 0
    /\ TouchInput' = TouchInput_onTouchCancel(TouchInput, [touches |-> 0])
    /\ fingers' = 0
    /\ pressedIn' = [pressedIn EXCEPT !.touches = 0]
    /\ Ingest({}, FALSE)

PointerDown(type, primary, p) ==
    /\ TouchInput' = TouchInput_onPointerDown(TouchInput,
                         [pointerType |-> type, isPrimary |-> primary,
                          pageX |-> p.pageX, pageY |-> p.pageY])
    /\ Ingest(IF type = "touch" /\ ~primary /\ Inside(p) THEN {"cancel"} ELSE {},
              FALSE)
    /\ UNCHANGED <<fingers, pressedIn>>

\* a wheel event; max caps the pending scroll totals
Wheel(event, max) ==
    \E next \in {TouchInput_onWheel(TouchInput, event)} :
        /\ next.events.wheelX \in -max..max
        /\ next.events.wheelY \in -max..max
        /\ TouchInput' = next
        /\ wheelIn' = <<wheelIn[1] + event.deltaX, wheelIn[2] + event.deltaY>>
        /\ touchOp' = "event"
        /\ UNCHANGED <<fingers, ingested, frame, twoFingerStart, wheelFrame,
                       touchSince, pressedIn, inputVars>>

\* a call of TouchInput.clear() by the engine
TouchClear ==
    /\ TouchInput' = TouchInput_clear(TouchInput)
    /\ ingested' = {}
    /\ frame' = {}
    /\ twoFingerStart' = FALSE
    /\ wheelIn' = <<0, 0>>
    /\ wheelFrame' = <<0, 0>>
    /\ touchSince' = -1
    /\ touchOp' = "clear"
    /\ UNCHANGED <<fingers, pressedIn, inputVars>>

\* one frame: TouchInput.update(); max caps the hold counter
TouchUpdate(max) ==
    \E next \in {TouchInput_update(TouchInput)} :
        /\ next.pressedTime <= max
        /\ TouchInput' = next
        /\ frame' = ingested
        /\ ingested' = {}
        /\ twoFingerStart' = FALSE
        /\ wheelFrame' = wheelIn
        /\ wheelIn' = <<0, 0>>
        /\ touchSince' = IF touchSince = -2 THEN 0
                          ELSE IF touchSince >= 0 THEN Min(touchSince + 1, max + 1)
                          ELSE -1
        /\ touchOp' = "update"
        /\ UNCHANGED <<fingers, pressedIn, inputVars>>

----------------------------------------------------------------------------
(* Specifications *)

Init == InputInit /\ TouchInit

\* Enter, Space (both "ok"), Escape, NumLock, an unmapped key (A)
KeyCodes == {13, 32, 27, 144, 65}

NextKeys ==
    \/ \E k \in KeyCodes : KeyDown(k)
    \/ \E k \in KeyCodes \cup {0} : KeyUp(k)
    \/ LostFocus
    \/ Clear
    \/ ResourceFail
    \/ Update(MaxTime, {}, {})

SpecKeys == Init /\ [][NextKeys]_vars

\* long holds: Enter ("ok") and Escape
HoldCodes == {13, 27}

NextHold ==
    \/ \E k \in HoldCodes : KeyDown(k)
    \/ \E k \in HoldCodes : KeyUp(k)
    \/ Clear
    \/ Update(MaxHold, Names, {})

SpecHold == Init /\ [][NextHold]_vars

\* keyboard and the gamepads: Enter ("ok"), buttons A ("ok") and
\* D-pad down, and the vertical axis of the left stick
PadCodes == {13}
PadIndices == {0}
AxisValues == {-10, 0, 5, 10}
PadAxisValues == {0, 10}
\* the slots that hold a gamepad: the first and the last; those between stay
\* empty, as the null entries of the array navigator.getGamepads() returns
PadSlots == {1, MaxPads}

NextPad ==
    \/ \E k \in PadCodes : KeyDown(k)
    \/ \E k \in PadCodes : KeyUp(k)
    \/ \E i \in PadSlots : PadConnect(i)
    \/ \E i \in PadSlots : PadDisconnect(i)
    \/ \E i \in PadSlots, j \in PadIndices : PadButton(i, j)
    \/ \E i \in PadSlots, v \in PadAxisValues : PadAxis(i, 1, v)
    \/ Clear
    \/ LostFocus
    \/ Update(MaxPadTime, {}, {})

SpecPad == Init /\ [][NextPad]_vars

\* the gamepads alone: the vertical axis of each left stick, and D-pad right
\* of the first gamepad
AxisIndices == {15}

NextAxis ==
    \/ \E i \in PadSlots : PadConnect(i)
    \/ \E j \in AxisIndices : PadButton(1, j)
    \/ \E i \in PadSlots, v \in AxisValues : PadAxis(i, 1, v)
    \/ Clear
    \/ Update(MaxPadTime, {}, PadSlots)

SpecAxis == Init /\ [][NextAxis]_vars

\* two keys and a button of each gamepad for one logical button: Enter,
\* Space, A
SourceCodes == {13, 32}

NextSources ==
    \/ \E k \in SourceCodes : KeyDown(k)
    \/ \E k \in SourceCodes : KeyUp(k)
    \/ \E i \in 1..MaxPads : PadConnect(i)
    \/ \E i \in 1..MaxPads : PadButton(i, 0)
    \/ Update(MaxTime, {}, {})

SpecSources == Init /\ [][NextSources]_vars

\* the arrow keys left, up, right
DirCodes == {37, 38, 39}

NextDir ==
    \/ \E k \in DirCodes : KeyDown(k)
    \/ \E k \in DirCodes : KeyUp(k)
    \/ Clear
    \/ Update(MaxTime, {}, {})

SpecDir == Init /\ [][NextDir]_vars

\* mouse, touch and pointer events with TouchInput.update() and clear()
NextTouch ==
    \/ \E ps \in TouchLists : TouchStart(ps)
    \/ \E b \in {0, 1, 2}, p \in PagePoints : MouseDown(b, p)
    \/ \E p \in PagePoints : MouseMove(p)
    \/ \E b \in {0, 1, 2}, p \in PagePoints : MouseUp(b, p)
    \/ \E ps \in TouchLists : TouchMove(ps)
    \/ \E ps \in TouchLists : TouchEnd(ps)
    \/ TouchCancel
    \/ \E type \in {"touch", "mouse"}, primary \in BOOLEAN, p \in PagePoints :
          PointerDown(type, primary, p)
    \/ TouchClear
    \/ TouchUpdate(MaxTouchTime)

SpecTouch == Init /\ [][NextTouch]_vars

\* touch events alone with TouchInput.update() and clear()
NextFingers ==
    \/ \E ps \in TouchLists : TouchStart(ps)
    \/ \E ps \in TouchLists : TouchMove(ps)
    \/ \E ps \in TouchLists : TouchEnd(ps)
    \/ TouchCancel
    \/ TouchClear
    \/ TouchUpdate(MaxTouchTime)

SpecFingers == Init /\ [][NextFingers]_vars

\* the four arrow keys
CrossCodes == {37, 38, 39, 40}

NextCross ==
    \/ \E k \in CrossCodes : KeyDown(k)
    \/ \E k \in CrossCodes : KeyUp(k)
    \/ Clear
    \/ Update(MaxCrossTime, {}, {})

SpecCross == Init /\ [][NextCross]_vars

\* a key, a mouse press and the window losing focus
NextFocus ==
    \/ KeyDown(13)
    \/ KeyUp(13)
    \/ LostFocus
    \/ Update(MaxTime, {}, {})
    \/ \E p \in PagePoints : MouseDown(0, p)
    \/ \E p \in PagePoints : MouseUp(0, p)
    \/ \E p \in PagePoints : TouchStart(<<p>>)
    \/ TouchUpdate(MaxTouchTime)

SpecFocus == Init /\ [][NextFocus]_vars

\* the mouse and up to MaxFingers fingers, with no clear()
NextContacts ==
    \/ \E p \in PagePoints : MouseDown(0, p)
    \/ \E p \in PagePoints : MouseUp(0, p)
    \/ \E ps \in TouchLists : TouchStart(ps)
    \/ \E ps \in TouchLists : TouchMove(ps)
    \/ \E ps \in TouchLists : TouchEnd(ps)
    \/ TouchCancel
    \/ TouchUpdate(MaxTouchTime)

SpecContacts == Init /\ [][NextContacts]_vars

\* a session of key events, or a session of pointer events: the two classes
\* share no state, so the sessions are not interleaved
EventCodes == {13, 27, 37}

NextEvents ==
    \/ touchOp = "init" /\ \E k \in EventCodes : KeyDown(k)
    \/ touchOp = "init" /\ \E k \in EventCodes : KeyUp(k)
    \/ touchOp = "init" /\ ResourceFail
    \/ touchOp = "init" /\ Update(MaxTime, {}, {})
    \/ lastOp = "init" /\ \E b \in {0, 1, 2}, p \in PointerPoints : MouseDown(b, p)
    \/ lastOp = "init" /\ \E p \in PointerPoints : MouseMove(p)
    \/ lastOp = "init" /\ \E b \in {0, 2}, p \in PointerPoints : MouseUp(b, p)
    \/ lastOp = "init" /\ \E p \in PointerPoints : TouchStart(<<p>>)
    \/ lastOp = "init" /\ \E p \in PointerPoints : TouchMove(<<p>>)
    \/ lastOp = "init" /\ \E p \in PointerPoints : TouchEnd(<<p>>)
    \/ lastOp = "init" /\ TouchCancel
    \/ lastOp = "init" /\ \E p \in PointerPoints : PointerDown("touch", FALSE, p)
    \/ lastOp = "init" /\ Wheel([deltaX |-> 1, deltaY |-> -1], 1)
    \/ lastOp = "init" /\ TouchUpdate(MaxTouchTime)

SpecEvents == Init /\ [][NextEvents]_vars

\* the wheel events of the model
WheelEvents == {[deltaX |-> 1, deltaY |-> 0], [deltaX |-> -1, deltaY |-> 1],
                [deltaX |-> 0, deltaY |-> -1]}

\* wheel events and a mouse press with TouchInput.update() and clear()
NextWheel ==
    \/ \E e \in WheelEvents : Wheel(e, MaxWheel)
    \/ \E p \in PagePoints : MouseDown(0, p)
    \/ \E p \in PagePoints : MouseUp(0, p)
    \/ TouchClear
    \/ TouchUpdate(MaxTouchTime)

SpecWheel == Init /\ [][NextWheel]_vars

\* every kind of pointer event, one point at a time, and one wheel notch
NextPointer ==
    \/ \E b \in {0, 2}, p \in PointerPoints : MouseDown(b, p)
    \/ \E p \in PointerPoints : MouseMove(p)
    \/ \E p \in PointerPoints : MouseUp(0, p)
    \/ \E p \in PointerPoints : TouchStart(<<p>>)
    \/ \E p \in PointerPoints : TouchMove(<<p>>)
    \/ \E p \in PointerPoints : TouchEnd(<<p>>)
    \/ TouchCancel
    \/ \E p \in PointerPoints : PointerDown("touch", FALSE, p)
    \/ Wheel([deltaX |-> 1, deltaY |-> -1], 1)
    \/ TouchClear
    \/ TouchUpdate(MaxTouchTime)

SpecPointer == Init /\ [][NextPointer]_vars

\* one long mouse press
NextTouchHold ==
    \/ \E p \in PagePoints : MouseDown(0, p)
    \/ \E p \in PagePoints : MouseMove(p)
    \/ \E p \in PagePoints : MouseUp(0, p)
    \/ TouchClear
    \/ TouchUpdate(MaxHold)

SpecTouchHold == Init /\ [][NextTouchHold]_vars

----------------------------------------------------------------------------
(* Claims *)

Updated == lastOp \in {"update", "clearUpdate"}

Last(seq) == seq[Len(seq)]

Range(seq) == {seq[i] : i \in 1..Len(seq)}

\* C1 as stated: after an update(), isTriggered(n) is true exactly for the
\* buttons n whose press edge (held now, not held at the previous update)
\* that update observed, so every press edge gets its one triggered frame
\* (cancel and menu are also triggered by a press edge of escape).
C1_TriggeredPerEdge ==
    Updated =>
        \A n \in Names :
            Input_isTriggered(Input, n) <=>
                \/ n \in Range(edges)
                \/ n \in {"cancel", "menu"} /\ "escape" \in Range(edges)

\* C1 amended: isTriggered(n) is true exactly when the latest update()
\* observed a press edge and n is the last button with a press edge in the
\* scan order of the current generation (for cancel and menu: also when that
\* button is escape); it is false after every update that observed no edge.
C1_TriggeredLastEdge ==
    \A n \in Names :
        Input_isTriggered(Input, n) <=>
            /\ edges # <<>>
            /\ \/ Last(edges) = n
               \/ Last(edges) = "escape" /\ n \in {"cancel", "menu"}

\* two buttons pressed in one frame: only the later-scanned one is triggered
C1_Witness ==
    /\ Updated
    /\ edges = <<"escape", "ok">>
    /\ Input_isTriggered(Input, "ok")
    /\ ~Input_isTriggered(Input, "escape")

\* C3 as stated: after every update() the hold counter is the number of
\* update() calls since the update that observed the most recent press edge.
C3_CounterSinceEdge ==
    (Updated /\ sinceEdge >= 0) => Input.pressedTime = sinceEdge

\* C3 amended: whenever a latest button is recorded (it was held at every
\* update since its press edge was observed), the hold counter is the number
\* of update() calls since the update that observed the most recent press
\* edge, 0 on that very frame; once the latest button is none the counter
\* stops counting.
C3_CounterWhileLatest ==
    Input.latestButton # Null => Input.pressedTime = sinceEdge

C3_Witness ==
    /\ Updated
    /\ Input.latestButton = "ok"
    /\ Input.pressedTime = 2
    /\ sinceEdge = 2

\* the frames of the repeat schedule: 0, then 24, 30, 36, ...
RepeatFrame(f) ==
    f = 0 \/ (f >= keyRepeatWait /\ (f - keyRepeatWait) % keyRepeatInterval = 0)

\* C5: while a button stays the latest one (held at every update since its
\* press edge), isRepeated is true on frame 0, false on frames 1..23 and
\* true exactly on frames 24, 30, 36, ...: the frames f >= 24 with
\* (f - 24) mod 6 = 0; frames are counted from the update of the press edge.
C5_RepeatSchedule ==
    \A n \in Names :
        Input.latestButton = n =>
            /\ Input_isRepeated(Input, n) <=> RepeatFrame(sinceEdge)
            /\ sinceEdge \in 1..23 => ~Input_isRepeated(Input, n)
            /\ sinceEdge \in {0, 24, 30, 36} => Input_isRepeated(Input, n)

C5_Witness ==
    /\ Updated
    /\ Input.latestButton = "ok"
    /\ sinceEdge = 30
    /\ Input_isRepeated(Input, "ok")

\* C6: while a button stays the latest one, isLongPressed is false on frames
\* 0..23 and true on every frame from 24 on; and isLongPressed(n) is true
\* only if n was pressed after each of the last 24 updates (indeed after the
\* update of its press edge as well, 25 in all).
C6_LongPress ==
    \A n \in Names :
        /\ Input.latestButton = n =>
              (Input_isLongPressed(Input, n) <=> sinceEdge >= keyRepeatWait)
        /\ Input_isLongPressed(Input, n) => heldFrames[n] >= keyRepeatWait + 1

\* long-pressed on a frame that is no repeat tick
C6_Witness ==
    /\ Updated
    /\ Input.latestButton = "ok"
    /\ sinceEdge = 25
    /\ Input_isLongPressed(Input, "ok")
    /\ ~Input_isRepeated(Input, "ok")

\* C8: whenever the raw escape button is held, isPressed is true of cancel
\* and of menu, and each of isTriggered, isRepeated, isLongPressed that is
\* true of escape is true of cancel and of menu.
C8_EscapeAlias ==
    \A n \in {"cancel", "menu"} :
        /\ Get(Input.currentState, "escape") => Input_isPressed(Input, n)
        /\ Input_isTriggered(Input, "escape") => Input_isTriggered(Input, n)
        /\ Input_isRepeated(Input, "escape") => Input_isRepeated(Input, n)
        /\ Input_isLongPressed(Input, "escape") => Input_isLongPressed(Input, n)

\* escape long-pressed on a repeat tick; cancel and menu were never written
C8_Witness ==
    /\ Get(Input.currentState, "escape")
    /\ Input_isRepeated(Input, "escape")
    /\ Input_isLongPressed(Input, "escape")
    /\ {"cancel", "menu"} \cap Keys(Input.currentState) = {}
    /\ Input_isPressed(Input, "cancel")
    /\ Input_isLongPressed(Input, "menu")

\* C2 as stated: after every update() a logical button is held in the
\* current generation if and only if some source contributes it (a key
\* mapped to it is down, or a connected gamepad holds a button or axis
\* mapped to it).
C2_HeldIffSource ==
    Updated => \A b \in Names : Get(Input.currentState, b) <=> Contributes(b)

\* the gamepad of slot i holds a button or binarized axis mapped to b
PadHolds(i, b) ==
    \E j \in DOMAIN PadTable : PadTable[j] = b /\ NewState(gamepads[i])[j + 1]

\* the connected slots, in the order update() polls them
ConnectedPads == {i \in 1..Len(gamepads) : gamepads[i].connected}

\* the connected gamepad polled last holds a button or binarized axis mapped
\* to b
LastPadHolds(b) ==
    ConnectedPads # {} /\ PadHolds(HighestOf(ConnectedPads), b)

Neutral ==
    /\ Input.dir4 = 0
    /\ Input.dir8 = 0
    /\ Input.latestButton = Null
    /\ \A n \in Names :
          /\ ~Input_isPressed(Input, n)
          /\ ~Input_isTriggered(Input, n)
          /\ ~Input_isRepeated(Input, n)

LeftUpHeld == Input_signX(Input) = -1 /\ Input_signY(Input) = -1

\* C7: after every update() with left and up held (and neither right nor
\* down), dir8 = 7 and dir4 is 4 or 8: 4 when the latest frame with exactly
\* one axis nonzero was vertical, 8 when it was horizontal or there was none
\* since clear(); and while dir8 stays 7 from one state to the next, dir4
\* does not change.
C7_DiagonalLeftUp ==
    /\ [](Updated /\ LeftUpHeld =>
            /\ Input.dir8 = 7
            /\ Input.dir4 \in {4, 8}
            /\ Input.dir4 = IF lastSingleAxis = "y" THEN 4 ELSE 8)
    /\ [][Input.dir8 = 7 /\ Input'.dir8 = 7 => Input'.dir4 = Input.dir4]_vars

\* up alone, then left added, held over several frames
C7_Witness ==
    /\ Updated
    /\ LeftUpHeld
    /\ lastSingleAxis = "y"
    /\ Input.dir4 = 4
    /\ sinceEdge >= 2

\* C9: each of isTriggered, isCancelled, isMoved, isReleased is true exactly
\* when an event of its kind was ingested in the frame the latest update()
\* published (the events since the update before it, or since a clear() that
\* emptied the buffer); so a flag is true for one frame per event frame, and
\* no event is lost or published twice.
C9_FlagsOneFrame ==
    /\ TouchInput_isTriggered(TouchInput) <=> "trigger" \in frame
    /\ TouchInput_isCancelled(TouchInput) <=> "cancel" \in frame
    /\ TouchInput_isMoved(TouchInput) <=> "move" \in frame
    /\ TouchInput_isReleased(TouchInput) <=> "release" \in frame

\* a frame with a move and a release, after a frame that had the trigger
C9_Witness ==
    /\ frame = {"move", "release"}
    /\ ingested = {}
    /\ TouchInput_isMoved(TouchInput)
    /\ TouchInput_isReleased(TouchInput)
    /\ ~TouchInput_isTriggered(TouchInput)
    /\ TouchInput.pressedTime >= 1

\* C10 as stated: a two-finger touch-start inside the canvas gives, on the
\* next update(), isCancelled() true and isTriggered() false.
C10_TwoFingerNoTrigger ==
    "twoFinger" \in frame =>
        TouchInput_isCancelled(TouchInput) /\ ~TouchInput_isTriggered(TouchInput)

\* C10 amended: a two-finger touch-start inside the canvas raises the pending
\* cancel flag and leaves the pending trigger flag as it was, and the next
\* update() (with no clear() before it) gives isCancelled() true;
\* isTriggered() is then true exactly when a trigger event (a one-finger
\* touch-start or a primary mouse press inside the canvas, such as the first
\* finger's own touch-start) was ingested in the same frame.
C10_TwoFingerCancel ==
    /\ []("twoFinger" \in frame =>
            /\ TouchInput_isCancelled(TouchInput)
            /\ TouchInput_isTriggered(TouchInput) <=> "trigger" \in frame)
    /\ [][twoFingerStart' =>
            /\ TouchInput'.events.cancelled
            /\ TouchInput'.events.triggered = TouchInput.events.triggered]_vars

\* the second finger lands in a later frame than the first
C10_Witness ==
    /\ frame = {"cancel", "twoFinger"}
    /\ fingers = 2
    /\ TouchInput_isCancelled(TouchInput)
    /\ ~TouchInput_isTriggered(TouchInput)

\* C11 as stated: x, y, wheelX and wheelY change only inside update() or
\* clear(); no event callback changes what these four accessors return.
C11_AccessorsFrameSynchronous ==
    [][(\/ TouchInput'.x # TouchInput.x
        \/ TouchInput'.y # TouchInput.y
        \/ TouchInput'.wheelX # TouchInput.wheelX
        \/ TouchInput'.wheelY # TouchInput.wheelY)
       => touchOp' \in {"update", "clear"}]_vars

\* C11 amended: wheelX and wheelY change only inside update() or clear(); x
\* and y are written at once by the callbacks that record a trigger, cancel,
\* move or release (they are the coordinates of the latest such event) and
\* are reset by clear(); update() never changes x or y.
C11_WheelSynchronousXYLive ==
    /\ [][(TouchInput'.wheelX # TouchInput.wheelX
            \/ TouchInput'.wheelY # TouchInput.wheelY)
           => touchOp' \in {"update", "clear"}]_vars
    /\ [][(TouchInput'.x # TouchInput.x \/ TouchInput'.y # TouchInput.y)
           => \/ touchOp' = "clear"
              \/ touchOp' = "event" /\ ingested' # {}]_vars

\* between two updates: a press has moved x, a wheel notch is still pending
C11_Witness ==
    /\ touchOp = "event"
    /\ "trigger" \in ingested
    /\ TouchInput.x = 1
    /\ TouchInput.events.wheelX = 1
    /\ TouchInput.wheelX = 0
    /\ ~TouchInput_isTriggered(TouchInput)

\* C12: wheelX (wheelY) is the sum of the deltaX (deltaY) of the wheel events
\* ingested in the frame the latest update() published, 0 when there were
\* none: the events of a frame add up, and none is carried to a later frame.
C12_WheelSums ==
    /\ TouchInput.wheelX = wheelFrame[1]
    /\ TouchInput.wheelY = wheelFrame[2]
    /\ touchOp = "update" =>
          TouchInput.events.wheelX = 0 /\ TouchInput.events.wheelY = 0

\* two notches of one frame published as their sum
C12_Witness ==
    /\ touchOp = "update"
    /\ wheelFrame = <<-2, 2>>
    /\ TouchInput.wheelX = -2
    /\ TouchInput.wheelY = 2

\* C13 as stated: with the update that publishes the trigger as frame 0 of a
\* press held ever since, TouchInput.isRepeated() is true on frame 0, false
\* on frames 1..23 and true on frames 24, 30, 36, ..., and isLongPressed() is
\* true exactly from frame 24 on: the schedule of Input.
C13_TouchScheduleAsInput ==
    touchSince >= 0 =>
        /\ TouchInput_isRepeated(TouchInput) <=> RepeatFrame(touchSince)
        /\ TouchInput_isLongPressed(TouchInput) <=> touchSince >= keyRepeatWait

\* C13 amended: the hold counter of TouchInput is already 1 on frame 0 (the
\* press event resets it to 0 and the update that publishes the trigger
\* increments it), so on frame f it is f + 1: isRepeated() is true on frame
\* 0, false on frames 1..22 and true on frames 23, 29, 35, ..., and
\* isLongPressed() is true exactly from frame 23 on, one frame earlier than
\* Input for a key pressed in the same frame.
C13_TouchScheduleOneEarlier ==
    touchSince >= 0 =>
        /\ TouchInput.pressedTime = touchSince + 1
        /\ TouchInput_isRepeated(TouchInput) <=>
              \/ touchSince = 0
              \/ /\ touchSince >= keyRepeatWait - 1
                 /\ (touchSince - (keyRepeatWait - 1)) % keyRepeatInterval = 0
        /\ TouchInput_isLongPressed(TouchInput) <=> touchSince >= keyRepeatWait - 1

C13_Witness ==
    /\ touchOp = "update"
    /\ touchSince = keyRepeatWait - 1
    /\ TouchInput_isRepeated(TouchInput)
    /\ TouchInput_isLongPressed(TouchInput)

\* C14 as stated: when axis 1 of a gamepad goes from at most 0.5 at one poll
\* to above 0.5 at the next, that update() leaves Input as it would had the
\* D-pad down button (index 13) gone from released to pressed instead: down
\* is held, it is the latest button with hold counter 0 (isTriggered("down")
\* is true), and dir4 and dir8 are the same in both runs.
C14_AxisAsDpad ==
    \A t \in Range(twin) :
        /\ Get(Input.currentState, "down")
        /\ Input.latestButton = "down" /\ Input.pressedTime = 0
        /\ Input_isTriggered(Input, "down")
        /\ Input.dir4 = t.state.dir4 /\ Input.dir8 = t.state.dir8

\* C14 amended: when axis 1 of a gamepad goes from within [-0.5, 0.5] at one
\* poll to above 0.5 at the next, that update() leaves the whole Input state
\* exactly as that gamepad's D-pad down button going from released to pressed
\* would (dir4 and dir8 included).  down is held after it unless a gamepad
\* polled later writes down as released in the same update (it released down
\* in that frame, or it is polled for the first time since it connected or
\* since clear()): the last write decides.  down is the latest button with
\* hold counter 0 exactly when that update observes press edges and the one
\* of down is the last in scan order (down was not already held, for instance
\* by another gamepad, and no button scanned after it is pressed in the same
\* frame).  From below -0.5 the stick also releases up, which the D-pad press
\* does not.
C14_AxisAsDpadFromNeutral ==
    \A t \in Range(twin) :
        /\ Get(Input.currentState, "down") <=> ~t.overwritten
        /\ t.from >= -threshold =>
              /\ Input = t.state
              /\ Input_isTriggered(Input, "down") <=>
                    (edges # <<>> /\ Last(edges) = "down")

\* the stick of the first gamepad pushed down from rest with a second gamepad
\* connected: down is triggered as by the D-pad
C14_Witness ==
    \E t \in Range(twin) :
        /\ t.pad = 1 /\ t.from = 0
        /\ gamepads[2].connected
        /\ Input = t.state
        /\ Input_isTriggered(Input, "down")
        /\ Input.dir4 = 2
        /\ ~gamepads[1].buttons[14]

\* C15 as stated: right after a window focus loss Input has no held button,
\* no latest button and neutral direction, and, no pointer event or update
\* having come since, TouchInput has mouse-pressed and touch-pressed false,
\* hold counter 0 and no pending or published event flags.
C15_FocusLossClearsBoth ==
    /\ lastOp = "blur" =>
          /\ \A n \in Names : ~Input_isPressed(Input, n)
          /\ Input.latestButton = Null
          /\ Input.dir4 = 0 /\ Input.dir8 = 0
    /\ touchOp = "blur" =>
          /\ ~TouchInput.mousePressed /\ ~TouchInput.screenPressed
          /\ ~TouchInput_isPressed(TouchInput)
          /\ TouchInput.pressedTime = 0
          /\ TouchInput.events = NoEvents
          /\ ~TouchInput.triggered /\ ~TouchInput.cancelled
          /\ ~TouchInput.moved /\ ~TouchInput.released

\* C16 as stated: a key-down or key-up event of a code without an entry in
\* keyMapper leaves the whole Input state unchanged.
C16_UnmappedIgnored ==
    [][lastKey' # <<>> => Input' = Input]_vars

\* C16 amended: a key-down or key-up event of a code without an entry in
\* keyMapper leaves the whole Input state unchanged, except the key-down of
\* code 144 (NumLock) and the key-up of code 0, which run clear().
C16_UnmappedIgnoredButNumLock ==
    [][lastKey' # <<>> =>
          IF lastKey' \in {<<"keydown", 144>>, <<"keyup", 0>>}
          THEN Input' = Input_clear(Input)
          ELSE Input' = Input]_vars

\* an unmapped key goes down while a button is the latest one
C16_Witness ==
    /\ lastKey = <<"keydown", 65>>
    /\ Input.latestButton = "ok"
    /\ Input.pressedTime = 1
    /\ Get(Input.currentState, "ok")
    /\ Get(Input.previousState, "ok")

UpdateStep == lastOp' \in {"update", "clearUpdate"}

\* C17 as stated: when one update() saw a single axis and the next sees a
\* true diagonal, dir4 of that next update stays on the axis of the first
\* (right held, then right and up held: dir4 = 6).
C17_DiagonalKeepsAxis ==
    [][UpdateStep /\ Input'.dir8 \in {1, 3, 7, 9} =>
          /\ Input.dir8 \in {4, 6} => Input'.dir4 \in {4, 6}
          /\ Input.dir8 \in {2, 8} => Input'.dir4 \in {2, 8}]_vars

\* C17 amended: when one update() saw a single axis and the next sees a true
\* diagonal, dir4 of that next update is the diagonal's component on the
\* other axis, the one newly added (right held, then right and up held:
\* dir4 = 8), and the preferred axis is that other axis.
C17_DiagonalTakesNewAxis ==
    [][UpdateStep /\ Input'.dir8 \in {1, 3, 7, 9} =>
          /\ Input.dir8 \in {4, 6} =>
                /\ Input'.dir4 = Input_makeNumpadDirection(0, Input_signY(Input'))
                /\ Input'.dir4 \in {2, 8}
                /\ Input'.preferredAxis = "y"
          /\ Input.dir8 \in {2, 8} =>
                /\ Input'.dir4 = Input_makeNumpadDirection(Input_signX(Input'), 0)
                /\ Input'.dir4 \in {4, 6}
                /\ Input'.preferredAxis = "x"]_vars

\* right was held alone, then up is added: dir8 = 9 and dir4 = 8
C17_Witness ==
    /\ Updated
    /\ lastSingleAxis = "x"
    /\ edges = <<"up">>
    /\ Get(Input.previousState, "right")
    /\ Input.dir8 = 9
    /\ Input.dir4 = 8

\* C18: an update() that observes no press edge leaves the latest button
\* none when it was none or is no longer held, whatever else is held; so a
\* latest button after an update is either the one of a press edge that
\* update observed or the latest button of before, still held; and with no
\* latest button nothing is triggered, repeated or long-pressed.
C18_NoPromotion ==
    [][UpdateStep =>
          /\ (edges' = <<>> /\ (Input.latestButton = Null
                                \/ ~Get(Input'.currentState, Input.latestButton)))
                => /\ Input'.latestButton = Null
                   /\ \A n \in Names :
                         /\ ~Input_isTriggered(Input', n)
                         /\ ~Input_isRepeated(Input', n)
                         /\ ~Input_isLongPressed(Input', n)
          /\ Input'.latestButton # Null =>
                \/ edges' # <<>> /\ Input'.latestButton = Last(edges')
                \/ /\ Input'.latestButton = Input.latestButton
                   /\ Get(Input'.currentState, Input.latestButton)]_vars

\* ok is held for several frames, escape came later and was released
C18_Witness ==
    /\ Updated
    /\ Input.latestButton = Null
    /\ Get(Input.currentState, "ok") /\ Get(Input.previousState, "ok")
    /\ "escape" \in Keys(Input.currentState)
    /\ ~Get(Input.currentState, "escape")
    /\ 13 \in keysDown
    /\ edges = <<>>
    /\ sinceEdge >= 2

\* C19 as stated: isPressed() is true in every state in which the primary
\* mouse button is down after a press inside the canvas, or a touch that
\* started inside the canvas is still in contact; with two fingers down,
\* lifting one leaves isPressed() true.
C19_PressedWhileContact ==
    (pressedIn.mouse \/ pressedIn.touches > 0) => TouchInput_isPressed(TouchInput)

\* C20: an event callback that does not run clear() leaves the published
\* state alone.  A key-down or key-up of a mapped key changes at most the
\* entry of that key's button in the current generation (to held on
\* key-down, to released on key-up) and leaves the latest button, the hold
\* counter, the previous generation, dir4, dir8, the preferred axis and the
\* gamepad cache as they were; every mouse, touch, pointer and wheel callback
\* leaves _triggered, _cancelled, _moved, _released, _wheelX and _wheelY as
\* they were.
C20_CallbacksWritePending ==
    /\ [][lastOp' = "event" =>
            LET cur == Input.currentState
                new == Input'.currentState
                changed == {n \in Names : Get(new, n) # Get(cur, n)}
            IN  /\ Input'.latestButton = Input.latestButton
                /\ Input'.pressedTime = Input.pressedTime
                /\ Input'.previousState = Input.previousState
                /\ Input'.dir4 = Input.dir4 /\ Input'.dir8 = Input.dir8
                /\ Input'.preferredAxis = Input.preferredAxis
                /\ Input'.gamepadStates = Input.gamepadStates
                /\ Cardinality(changed) <= 1
                /\ \A n \in changed :
                      IF Get(new, n)
                      THEN \E k \in keysDown' : keyMapper(k) = n
                      ELSE \E k \in keysDown \ keysDown' : keyMapper(k) = n
                /\ Keys(new) \ Keys(cur) \subseteq
                      {keyMapper(k) : k \in keysDown \cup keysDown'}]_vars
    /\ [][touchOp' = "event" =>
            /\ TouchInput'.triggered = TouchInput.triggered
            /\ TouchInput'.cancelled = TouchInput.cancelled
            /\ TouchInput'.moved = TouchInput.moved
            /\ TouchInput'.released = TouchInput.released
            /\ TouchInput'.wheelX = TouchInput.wheelX
            /\ TouchInput'.wheelY = TouchInput.wheelY]_vars

\* between two updates: escape has gone down and left has gone up, and the
\* published state still has ok as the latest button and the direction left
C20_Witness ==
    /\ lastOp = "event"
    /\ Get(Input.currentState, "escape") /\ ~Get(Input.previousState, "escape")
    /\ ~Get(Input.currentState, "left") /\ Get(Input.previousState, "left")
    /\ Input.latestButton = "ok"
    /\ Input.pressedTime = 1
    /\ Input.dir4 = 4
    /\ ~Input_isTriggered(Input, "cancel")

\* C21: immediately after every update() the latest button, if there is
\* one, is held in the current generation; so for every logical button n,
\* isTriggered(n), isRepeated(n) or isLongPressed(n) being true implies that
\* isPressed(n) is true, cancel and menu through the escape alias included.
C21_LatestIsHeld ==
    Updated =>
        /\ Input.latestButton # Null =>
              Get(Input.currentState, Input.latestButton)
        /\ \A n \in Names :
              (\/ Input_isTriggered(Input, n)
               \/ Input_isRepeated(Input, n)
               \/ Input_isLongPressed(Input, n)) => Input_isPressed(Input, n)

\* escape pressed while ok is held: cancel is triggered and pressed by alias
C21_Witness ==
    /\ Updated
    /\ Input.latestButton = "escape"
    /\ Get(Input.currentState, "ok")
    /\ "cancel" \notin Keys(Input.currentState)
    /\ Input_isTriggered(Input, "cancel")
    /\ Input_isPressed(Input, "cancel")

\* C22: in every state dir8 is in {0,1,2,3,4,6,7,8,9} and dir4 is in
\* {0,2,4,6,8}; dir4 = 0 exactly when dir8 = 0; when dir8 is 2, 4, 6 or 8,
\* dir4 = dir8; and after an update() with both opposite buttons of an axis
\* held, that axis contributes 0: dir8 is on the other axis or 0.
C22_DirectionRanges ==
    /\ Input.dir8 \in {0, 1, 2, 3, 4, 6, 7, 8, 9}
    /\ Input.dir4 \in {0, 2, 4, 6, 8}
    /\ Input.dir4 = 0 <=> Input.dir8 = 0
    /\ Input.dir8 \in {2, 4, 6, 8} => Input.dir4 = Input.dir8
    /\ Updated =>
          /\ (Input_isPressed(Input, "left") /\ Input_isPressed(Input, "right"))
                => /\ Input_signX(Input) = 0
                   /\ Input.dir8 \in {0, 2, 8}
          /\ (Input_isPressed(Input, "up") /\ Input_isPressed(Input, "down"))
                => /\ Input_signY(Input) = 0
                   /\ Input.dir8 \in {0, 4, 6}

\* left and right held with up: the direction is up
C22_Witness ==
    /\ Updated
    /\ Input_isPressed(Input, "left") /\ Input_isPressed(Input, "right")
    /\ Input_isPressed(Input, "up")
    /\ Input.dir8 = 8
    /\ Input.dir4 = 8

====
